---- MODULE Spec2Model ----
(***************************************************************************)
(* Model of library/prometheus.py: the Ansible callback plugin that        *)
(* aggregates task results into Prometheus gauges and writes them to a     *)
(* textfile when the playbook ends.                                        *)
(*                                                                         *)
(* Time is counted in clock ticks of half a second, so that the            *)
(* truncation int(finish - start) of the source is visible.                *)
(***************************************************************************)
EXTENDS Integers, Sequences, FiniteSets, TLC

\* ------------------------------------------------------------------ bounds
MaxEvents == 4      \* callbacks the engine invokes in one run
MaxTime == 2        \* the clock stops advancing at this many ticks

\* ------------------------------------------------------------------ values
\* Python's None and a present value, kept apart from every string.
None == <<>>
Some(x) == <<x>>
Val(o) == o[1]

\* result._host.name
Hosts == {"h1"}
\* the threads that deliver results concurrently, and the hosts they report on
Workers == {"w1", "w2"}
WorkerHosts == {"h1", "h2"}
\* the tasks of the playbook: task._uuid, and the task.action of each
TaskIds == {"t1", "t2"}
ActionOf(task_uuid) == IF task_uuid = "t1" THEN "setup" ELSE "debug"
\* play.get_name() results; a play may be called anything, also "None"
PlayNames == {"site", "None"}
\* playbook._file_name, as path components
PlaybookFiles == {<<"plays", "site.yml">>, <<"site.yml">>}
\* values of the PROMETHEUS_* environment variables: the documented booleans
EnvValues == {"True", "False"}
\* and what else the variables may be set to
EnvAny == EnvValues \cup {"Yes", "1", "garbage"}
\* result._result['changed']: None when the dict has no such key
ResultChanged == {<<>>, <<TRUE>>, <<FALSE>>}

\* ansible.constants._ACTION_SETUP
ACTION_SETUP == {"setup", "ansible.builtin.setup", "ansible.legacy.setup"}

VARIABLES
    _fail_on_change,        \* self._fail_on_change (lowercased string)
    _fail_on_ignore,        \* self._fail_on_ignore
    _include_setup_tasks,   \* self._include_setup_tasks
    disabled,               \* self.disabled
    _play_name,             \* self._play_name: None or Some(name)
    _start_time,            \* self._start_time: None or Some(ticks)
    _task_data,             \* self._task_data: task uuid -> TaskData
    info_playbook,          \* ansible_playbook Info: None or Some(name)
    playbook_duration,      \* ansible_playbook_duration_seconds
    tasks_duration,         \* ansible_tasks_duration_seconds: <<play, host>> -> value
    tasks_status,           \* ansible_tasks_status: <<play, host, status>> -> value
    textfile,               \* the output file: None or Some(snapshot)
    now,                    \* time.time(), in ticks
    err,                    \* exception raised by the last callback, "" if none
    last,                   \* the last task result that returned, and the gauges before it
    results,                \* <<play, host>> -> results that returned and were not setup results left out
    started,                \* task uuid -> what its first start callback saw, and whether more came
    workers,                \* the result callbacks in progress on the worker threads
    delivered,              \* series -> increments due to the results the workers took up
    overlapped,             \* some result was taken up while another was in progress
    nevents                 \* callbacks invoked so far

cfg_vars == <<_fail_on_change, _fail_on_ignore, _include_setup_tasks, disabled>>
run_vars == <<_play_name, _start_time>>
metric_vars == <<info_playbook, playbook_duration, tasks_duration, tasks_status>>
prog_vars == <<cfg_vars, run_vars, _task_data, metric_vars, textfile>>
conc_vars == <<workers, delivered, overlapped>>
vars == <<prog_vars, now, err, last, results, started, nevents, conc_vars>>

\* ------------------------------------------------------------------ helpers
\* str.lower() on the values the environment can hold
Lower(s) ==
    CASE s = "True" -> "true"
      [] s = "TRUE" -> "true"
      [] s = "False" -> "false"
      [] s = "FALSE" -> "false"
      [] s = "Yes" -> "yes"
      [] OTHER -> s

\* os.path.basename
Basename(path) == path[Len(path)]

\* int(x) of a span of half-second ticks: truncation toward zero
IntSeconds(ticks) ==
    IF ticks >= 0 THEN ticks \div 2 ELSE -((-ticks) \div 2)

\* mutant: an unset value becomes the empty label
Str_Mutant(v) == IF v = None THEN "" ELSE Val(v)

\* str(l), which prometheus_client applies to every label value
Str(v) == IF v = None THEN "None" ELSE Val(v)

\* result._result.get('changed', default)
DictGet(entry, default) == IF entry = None THEN default ELSE Val(entry)

\* mutant: the child is created anew, at 0, by every labels() call
Inc_Mutant(metric, key, amount) ==
    [k \in DOMAIN metric \cup {key} |-> IF k = key THEN amount ELSE metric[k]]

\* metric.labels(...).inc(amount): the child is created at 0 when absent
Inc(metric, key, amount) ==
    [k \in DOMAIN metric \cup {key} |->
        IF k = key
        THEN (IF key \in DOMAIN metric THEN metric[key] ELSE 0) + amount
        ELSE metric[k]]

\* an empty dict, an empty family of labelled children
EmptyMap == [k \in {} |-> 0]

\* TaskData.__init__
TaskData(play, action) == [play |-> play, action |-> action, start_time |-> now]

\* mutant: the file is written with the playbook duration not yet recorded
Snapshot_Mutant(pbdur) ==
    [info |-> info_playbook, playbook_duration |-> playbook_duration,
     tasks_duration |-> tasks_duration, tasks_status |-> tasks_status]

\* the registry as write_to_textfile serialises it, the playbook duration being pbdur
Snapshot(pbdur) ==
    [info |-> info_playbook, playbook_duration |-> pbdur,
     tasks_duration |-> tasks_duration, tasks_status |-> tasks_status]

\* ------------------------------------------------------------------ bookkeeping
\* a task result as its callback received it, and what became of it
\* before: the gauges when the callback was invoked; current: the play at that time
Result(outcome, raw, task, host, changed, ignore, status, duration, current) ==
    [outcome |-> outcome, raw |-> raw, task |-> task, host |-> host,
     changed |-> changed, ignore |-> ignore,
     before |-> [tasks_status |-> status, tasks_duration |-> duration],
     current |-> current]
NoResult == Result("none", "", "", "", FALSE, FALSE, EmptyMap, EmptyMap, None)

\* a start callback for the task is noted: what the first one saw, and that more came
Seen(starts, task_uuid) ==
    IF task_uuid \in DOMAIN starts
    THEN [starts EXCEPT ![task_uuid].again = TRUE]
    ELSE [u \in DOMAIN starts \cup {task_uuid} |->
            IF u = task_uuid
            THEN [play |-> _play_name, action |-> ActionOf(task_uuid),
                  start_time |-> now, again |-> FALSE]
            ELSE starts[u]]

\* one more is counted under a key
Tally(counts, key) ==
    [k \in DOMAIN counts \cup {key} |->
        (IF k \in DOMAIN counts THEN counts[k] ELSE 0) + (IF k = key THEN 1 ELSE 0)]

Returns == err' = ""
Raises(e) == err' = e

\* a worker thread that is in no callback
Idle == [pc |-> "idle", play |-> None, host |-> "", status |-> "", changed |-> FALSE,
         start_time |-> 0]

\* the engine invokes one more callback, which runs to its end before the next
Invoked == nevents < MaxEvents /\ nevents' = nevents + 1 /\ UNCHANGED conc_vars

\* ------------------------------------------------------------------ __init__
\* the plugin as __init__ leaves it, the environment holding values of env
Constructed(HAS_PROMETHEUS_CLIENT, env) ==
    /\ _fail_on_change \in {Lower(v) : v \in env}
    /\ _fail_on_ignore \in {Lower(v) : v \in env}
    /\ _include_setup_tasks \in {Lower(v) : v \in env}
    /\ disabled = ~HAS_PROMETHEUS_CLIENT
    /\ _play_name = None
    /\ _start_time = None
    /\ _task_data = EmptyMap
    /\ info_playbook = None
    /\ playbook_duration = 0
    /\ tasks_duration = EmptyMap
    /\ tasks_status = EmptyMap
    /\ textfile = None
    /\ now = 0
    /\ err = ""
    /\ last = NoResult
    /\ started = EmptyMap
    /\ results = EmptyMap
    /\ nevents = 0
    /\ workers = [w \in Workers |-> Idle]
    /\ delivered = EmptyMap
    /\ overlapped = FALSE

\* prometheus_client is installed
Init == Constructed(TRUE, EnvValues)

\* prometheus_client is missing: the plugin disables itself
InitDisabled == Constructed(FALSE, EnvValues)

\* ------------------------------------------------------------------ the clock
Tick ==
    /\ now < MaxTime
    /\ now' = now + 1
    /\ UNCHANGED <<prog_vars, err, last, results, started, nevents, conc_vars>>

\* ------------------------------------------------------------------ playbook
_start_playbook(playbook) ==
    IF disabled
    THEN Raises("AttributeError")
         /\ UNCHANGED <<info_playbook, _start_time>>
    ELSE /\ info_playbook' = Some(Basename(playbook))
         /\ _start_time' = Some(now)
         /\ Returns

\* mutant: a playbook start registers the status gauge anew, without its children
v2_playbook_on_start_Mutant ==
    \E playbook \in PlaybookFiles :
        /\ _start_playbook(playbook)
        /\ tasks_status' = EmptyMap
        /\ Invoked
        /\ UNCHANGED <<cfg_vars, _play_name, _task_data, playbook_duration,
                       tasks_duration, textfile, now, last, results, started>>

v2_playbook_on_start ==
    \E playbook \in PlaybookFiles :
        /\ _start_playbook(playbook)
        /\ Invoked
        /\ UNCHANGED <<cfg_vars, _play_name, _task_data, playbook_duration,
                       tasks_duration, tasks_status, textfile, now, last, results, started>>

v2_playbook_on_play_start ==
    \E name \in PlayNames :
        /\ _play_name' = Some(name)
        /\ Returns
        /\ Invoked
        /\ UNCHANGED <<cfg_vars, _start_time, _task_data, metric_vars, textfile,
                       now, last, results, started>>

\* ------------------------------------------------------------------ task start
\* mutant: a start for a registered task replaces its TaskData
_start_task_Mutant(task_uuid, action) ==
    /\ _task_data' =
         [u \in DOMAIN _task_data \cup {task_uuid} |->
             IF u = task_uuid THEN TaskData(_play_name, action) ELSE _task_data[u]]
    /\ Returns

_start_task(task_uuid, action) ==
    /\ _task_data' =
         IF task_uuid \in DOMAIN _task_data
         THEN _task_data
         ELSE [u \in DOMAIN _task_data \cup {task_uuid} |->
                 IF u = task_uuid THEN TaskData(_play_name, action) ELSE _task_data[u]]
    /\ Returns

TaskStart(task_uuid) ==
    /\ _start_task(task_uuid, ActionOf(task_uuid))
    /\ started' = Seen(started, task_uuid)
    /\ Invoked
    /\ UNCHANGED <<cfg_vars, run_vars, metric_vars, textfile, now, last, results>>

v2_runner_on_no_hosts ==
    \E task_uuid \in TaskIds : TaskStart(task_uuid)
v2_playbook_on_task_start ==
    \E task_uuid \in TaskIds : TaskStart(task_uuid)
v2_playbook_on_cleanup_task_start ==
    \E task_uuid \in TaskIds : TaskStart(task_uuid)
v2_playbook_on_handler_task_start ==
    \E task_uuid \in TaskIds : TaskStart(task_uuid)

\* ------------------------------------------------------------------ task result
\* mutant: the exclusion does not look at the action
SetupExcluded_Mutant(task_data) == _include_setup_tasks = "false"

\* mutant: setup tasks are kept only when the option is exactly 'true'
SetupExcluded_NotTrue_Mutant(task_data) ==
    task_data.action \in ACTION_SETUP /\ _include_setup_tasks /= "true"

\* the setup exclusion of _finish_task
SetupExcluded(task_data) ==
    task_data.action \in ACTION_SETUP /\ _include_setup_tasks = "false"

\* mutant: ignore_errors is not consulted
FailedStatus_Mutant(ignore_errors) == "failed"

\* mutant: an ignored failure is handed on under a status of its own
FailedStatus_Ignored_Mutant(ignore_errors) ==
    IF ignore_errors /\ _fail_on_ignore /= "true" THEN "ignored" ELSE "failed"

\* the status v2_runner_on_failed hands to _finish_task
FailedStatus(ignore_errors) ==
    IF ignore_errors /\ _fail_on_ignore /= "true" THEN "ok" ELSE "failed"

\* mutant: fail_on_change reclassifies every status, not only ok
FinalStatus_Mutant(status, changed) ==
    IF _fail_on_change = "true" /\ changed THEN "failed" ELSE status

\* the status _finish_task counts
FinalStatus(status, changed) ==
    IF _fail_on_change = "true" /\ status = "ok" /\ changed THEN "failed" ELSE status

\* mutant: changed is recorded only for results counted as ok
RecordStatus_Mutant(metric, play, host, status, changed) ==
    LET counted == Inc(metric, <<Str(play), host, status>>, 1)
    IN  IF changed /\ status = "ok"
        THEN Inc(counted, <<Str(play), host, "changed">>, 1) ELSE counted

\* mutant: a result that reports changed is counted as changed instead of its status
RecordStatus_Instead_Mutant(metric, play, host, status, changed) ==
    IF changed
    THEN Inc(metric, <<Str(play), host, "changed">>, 1)
    ELSE Inc(metric, <<Str(play), host, status>>, 1)

\* ansible_tasks_status after the increments of one result
RecordStatus(metric, play, host, status, changed) ==
    LET counted == Inc(metric, <<Str(play), host, status>>, 1)
    IN  IF changed THEN Inc(counted, <<Str(play), host, "changed">>, 1) ELSE counted

\* mutant: the elapsed time is rounded to the nearest second, not truncated
RecordDuration_Mutant(metric, play, host, start_time, finish_time) ==
    Inc(metric, <<Str(play), host>>, (finish_time - start_time + 1) \div 2)

\* ansible_tasks_duration_seconds after the increment of one result
RecordDuration(metric, play, host, start_time, finish_time) ==
    Inc(metric, <<Str(play), host>>, IntSeconds(finish_time - start_time))

\* mutant: a missing key is defaulted to a fresh TaskData instead of raising
Lookup_Mutant(task_uuid) ==
    IF task_uuid \in DOMAIN _task_data
    THEN Some(_task_data[task_uuid])
    ELSE Some(TaskData(_play_name, ""))

\* self._task_data[task_uuid]: None stands for the KeyError of a missing key
Lookup(task_uuid) ==
    IF task_uuid \in DOMAIN _task_data THEN Some(_task_data[task_uuid]) ELSE None

\* mutant: the result is counted under the play that is current when it arrives
_finish_task_Mutant(status, task_uuid, host, result_changed) ==
    IF Lookup(task_uuid) = None
    THEN Raises("KeyError") /\ UNCHANGED metric_vars
    ELSE LET task_data == Val(Lookup(task_uuid))
             changed == DictGet(result_changed, FALSE)
             play == _play_name
         IN  IF SetupExcluded(task_data)
             THEN Returns /\ UNCHANGED metric_vars
             ELSE IF disabled
             THEN Raises("AttributeError") /\ UNCHANGED metric_vars
             ELSE /\ tasks_status' =
                       RecordStatus(tasks_status, play, host, FinalStatus(status, changed), changed)
                  /\ tasks_duration' =
                       RecordDuration(tasks_duration, play, host, task_data.start_time, now)
                  /\ UNCHANGED <<info_playbook, playbook_duration>>
                  /\ Returns

_finish_task(status, task_uuid, host, result_changed) ==
    IF Lookup(task_uuid) = None
    THEN Raises("KeyError") /\ UNCHANGED metric_vars
    ELSE LET task_data == Val(Lookup(task_uuid))
             changed == DictGet(result_changed, FALSE)
             play == task_data.play
         IN  IF SetupExcluded(task_data)
             THEN Returns /\ UNCHANGED metric_vars
             ELSE IF disabled
             THEN Raises("AttributeError") /\ UNCHANGED metric_vars
             ELSE /\ tasks_status' =
                       RecordStatus(tasks_status, play, host, FinalStatus(status, changed), changed)
                  /\ tasks_duration' =
                       RecordDuration(tasks_duration, play, host, task_data.start_time, now)
                  /\ UNCHANGED <<info_playbook, playbook_duration>>
                  /\ Returns

\* what the step did with the result, for the record kept in last
Noted(raw, task_uuid, host, result_changed, ignore_errors) ==
    /\ last' = IF err' /= "" THEN last
               ELSE Result(IF tasks_status' = tasks_status THEN "dropped" ELSE "counted", raw,
                           task_uuid, host, DictGet(result_changed, FALSE), ignore_errors,
                           tasks_status, tasks_duration, _play_name)
    /\ results' =
          IF /\ err' = ""
             /\ task_uuid \in DOMAIN _task_data
             /\ ~(ActionOf(task_uuid) \in ACTION_SETUP /\ _include_setup_tasks = "false")
          THEN Tally(results, <<Str(_task_data[task_uuid].play), host>>)
          ELSE results

Failed(task_uuid, host, result_changed, ignore_errors) ==
    /\ _finish_task(FailedStatus(ignore_errors), task_uuid, host, result_changed)
    /\ Noted("failed", task_uuid, host, result_changed, ignore_errors)
    /\ Invoked
    /\ UNCHANGED <<cfg_vars, run_vars, _task_data, textfile, now, started>>

Ok(task_uuid, host, result_changed) ==
    /\ _finish_task("ok", task_uuid, host, result_changed)
    /\ Noted("ok", task_uuid, host, result_changed, FALSE)
    /\ Invoked
    /\ UNCHANGED <<cfg_vars, run_vars, _task_data, textfile, now, started>>

Skipped(task_uuid, host, result_changed) ==
    /\ _finish_task("skipped", task_uuid, host, result_changed)
    /\ Noted("skipped", task_uuid, host, result_changed, FALSE)
    /\ Invoked
    /\ UNCHANGED <<cfg_vars, run_vars, _task_data, textfile, now, started>>

v2_runner_on_failed ==
    \E task_uuid \in TaskIds, host \in Hosts, result_changed \in ResultChanged,
       ignore_errors \in BOOLEAN :
        Failed(task_uuid, host, result_changed, ignore_errors)

v2_runner_on_ok ==
    \E task_uuid \in TaskIds, host \in Hosts, result_changed \in ResultChanged :
        Ok(task_uuid, host, result_changed)

v2_runner_on_skipped ==
    \E task_uuid \in TaskIds, host \in Hosts, result_changed \in ResultChanged :
        Skipped(task_uuid, host, result_changed)

\* ------------------------------------------------------------------ playbook stats
\* ansible_playbook_duration_seconds after _finish_playbook
RecordPlaybookDuration(value, start_time, finish_time) ==
    value + IntSeconds(finish_time - start_time)

\* mutant: without a start time the duration is skipped and the file still written
v2_playbook_on_stats_Mutant ==
    /\ IF disabled
       THEN Raises("AttributeError") /\ UNCHANGED <<playbook_duration, textfile>>
       ELSE /\ playbook_duration' =
                 IF _start_time = None THEN playbook_duration
                 ELSE RecordPlaybookDuration(playbook_duration, Val(_start_time), now)
            /\ \E written \in BOOLEAN :
                 IF written
                 THEN textfile' = Some(Snapshot(playbook_duration')) /\ Returns
                 ELSE UNCHANGED textfile /\ Raises("IOError")
    /\ Invoked
    /\ UNCHANGED <<cfg_vars, run_vars, _task_data, info_playbook, tasks_duration,
                   tasks_status, now, last, results, started>>

\* _finish_playbook, then write_metrics_textfile; the write may fail on I/O
v2_playbook_on_stats ==
    /\ IF disabled
       THEN Raises("AttributeError") /\ UNCHANGED <<playbook_duration, textfile>>
       ELSE IF _start_time = None
       THEN Raises("TypeError") /\ UNCHANGED <<playbook_duration, textfile>>
       ELSE /\ playbook_duration' =
                 RecordPlaybookDuration(playbook_duration, Val(_start_time), now)
            /\ \E written \in BOOLEAN :
                 IF written
                 THEN textfile' = Some(Snapshot(playbook_duration')) /\ Returns
                 ELSE UNCHANGED textfile /\ Raises("IOError")
    /\ Invoked
    /\ UNCHANGED <<cfg_vars, run_vars, _task_data, info_playbook, tasks_duration,
                   tasks_status, now, last, results, started>>

\* ------------------------------------------------------------------ specification
Next ==
    \/ Tick
    \/ v2_playbook_on_start
    \/ v2_playbook_on_play_start
    \/ v2_runner_on_no_hosts
    \/ v2_playbook_on_task_start
    \/ v2_playbook_on_cleanup_task_start
    \/ v2_playbook_on_handler_task_start
    \/ v2_runner_on_failed
    \/ v2_runner_on_ok
    \/ v2_runner_on_skipped
    \/ v2_playbook_on_stats

Spec == Init /\ [][Next]_vars

\* the callbacks invoked on a plugin that disabled itself
SpecDisabled == InitDisabled /\ [][Next]_vars

\* the plugin constructed under any environment
InitEnv == Constructed(TRUE, EnvAny)

\* plays, task starts and results; the clock is left standing
NextTasks ==
    \/ v2_playbook_on_play_start
    \/ v2_playbook_on_task_start
    \/ v2_runner_on_failed
    \/ v2_runner_on_ok
    \/ v2_runner_on_skipped

\* the task callbacks under every setting of the three options
SpecEnv == InitEnv /\ [][NextTasks]_vars

\* ------------------------------------------------------------------ concurrent delivery
\* Results delivered from several worker threads: _finish_task runs on each thread
\* and the threads interleave between its statements. Gauge.labels and Gauge.inc
\* each take the metric's lock, so one increment is one step.

\* lines 157-168: the thread looks the task up and settles play, host, status, changed
WBegin(w, status, task_uuid, host, result_changed) ==
    /\ workers[w].pc = "idle"
    /\ nevents < MaxEvents
    /\ nevents' = nevents + 1
    /\ IF Lookup(task_uuid) = None
       THEN Raises("KeyError") /\ UNCHANGED conc_vars
       ELSE LET task_data == Val(Lookup(task_uuid))
                changed == DictGet(result_changed, FALSE)
                final == FinalStatus(status, changed)
                label == Str(task_data.play)
            IN  IF SetupExcluded(task_data)
                THEN Returns /\ UNCHANGED conc_vars
                ELSE /\ workers' = [workers EXCEPT ![w] =
                            [pc |-> "status", play |-> task_data.play, host |-> host,
                             status |-> final, changed |-> changed,
                             start_time |-> task_data.start_time]]
                     /\ delivered' =
                            IF changed
                            THEN Tally(Tally(delivered, <<label, host, final>>),
                                       <<label, host, "changed">>)
                            ELSE Tally(delivered, <<label, host, final>>)
                     /\ overlapped' = (overlapped \/ \E v \in Workers : workers[v].pc /= "idle")
                     /\ UNCHANGED err
    /\ UNCHANGED <<prog_vars, now, last, results, started>>

WorkerFailed ==
    \E w \in Workers, task_uuid \in TaskIds, host \in WorkerHosts,
       result_changed \in ResultChanged, ignore_errors \in BOOLEAN :
        WBegin(w, FailedStatus(ignore_errors), task_uuid, host, result_changed)

WorkerOk ==
    \E w \in Workers, task_uuid \in TaskIds, host \in WorkerHosts,
       result_changed \in ResultChanged :
        WBegin(w, "ok", task_uuid, host, result_changed)

WorkerSkipped ==
    \E w \in Workers, task_uuid \in TaskIds, host \in WorkerHosts,
       result_changed \in ResultChanged :
        WBegin(w, "skipped", task_uuid, host, result_changed)

\* line 170
WStatus ==
    \E w \in Workers :
        /\ workers[w].pc = "status"
        /\ tasks_status' =
             Inc(tasks_status, <<Str(workers[w].play), workers[w].host, workers[w].status>>, 1)
        /\ workers' = [workers EXCEPT ![w].pc =
                          IF workers[w].changed THEN "changed" ELSE "duration"]
        /\ UNCHANGED <<cfg_vars, run_vars, _task_data, info_playbook, playbook_duration,
                       tasks_duration, textfile, now, err, last, results, started, nevents,
                       delivered, overlapped>>

\* lines 171-172
WChanged ==
    \E w \in Workers :
        /\ workers[w].pc = "changed"
        /\ tasks_status' =
             Inc(tasks_status, <<Str(workers[w].play), workers[w].host, "changed">>, 1)
        /\ workers' = [workers EXCEPT ![w].pc = "duration"]
        /\ UNCHANGED <<cfg_vars, run_vars, _task_data, info_playbook, playbook_duration,
                       tasks_duration, textfile, now, err, last, results, started, nevents,
                       delivered, overlapped>>

\* lines 174-175, and the callback returns
WDuration ==
    \E w \in Workers :
        /\ workers[w].pc = "duration"
        /\ tasks_duration' =
             RecordDuration(tasks_duration, workers[w].play, workers[w].host,
                            workers[w].start_time, now)
        /\ workers' = [workers EXCEPT ![w] = Idle]
        /\ Returns
        /\ UNCHANGED <<cfg_vars, run_vars, _task_data, info_playbook, playbook_duration,
                       tasks_status, textfile, now, last, results, started, nevents,
                       delivered, overlapped>>

\* the control thread starts plays and tasks while the workers deliver results
NextConc ==
    \/ v2_playbook_on_play_start
    \/ v2_playbook_on_task_start
    \/ WorkerFailed
    \/ WorkerOk
    \/ WorkerSkipped
    \/ WStatus
    \/ WChanged
    \/ WDuration

\* the plugin as constructed with none of the PROMETHEUS_* variables set
InitDefault ==
    /\ Init
    /\ _fail_on_change = Lower("False")
    /\ _fail_on_ignore = Lower("False")
    /\ _include_setup_tasks = Lower("True")

SpecConc == InitDefault /\ [][NextConc]_vars

\* ------------------------------------------------------------------ reading the state
\* the value of one labelled child, 0 when it was never created
Value(metric, key) == IF key \in DOMAIN metric THEN metric[key] ELSE 0

Primary == {"ok", "failed", "skipped"}

\* the last task result that returned reached the counters
Counted == last.outcome = "counted"

\* the play label of the series the result in last is counted under
PlayOfLast == Str(_task_data[last.task].play)

\* how much the series (play, host, status) of the result in last grew when it was counted
Growth(status) ==
    Value(tasks_status, <<PlayOfLast, last.host, status>>)
        - Value(last.before.tasks_status, <<PlayOfLast, last.host, status>>)

\* the result in last was counted under this primary status and no other
CountedAs(status) ==
    \A s \in Primary : Growth(s) = IF s = status THEN 1 ELSE 0

\* rule 1 of the decision table applies to the result in last
Rule1 == last.raw = "failed" /\ last.ignore /\ _fail_on_ignore = "false"

\* ------------------------------------------------------------------ C1
\* C1 as stated: a failed result with ignore_errors, while fail_on_ignore is
\* false, is counted as ok whatever changed and fail_on_change are.
C1_Original == (Counted /\ Rule1) => CountedAs("ok")

\* C1, amended: a failed result with ignore_errors, while fail_on_ignore is false,
\* is counted as ok, except that it is counted as failed when it reports changed
\* and fail_on_change is true.
C1_IgnoredFailure ==
    (Counted /\ Rule1) =>
        CountedAs(IF last.changed /\ _fail_on_change = "true" THEN "failed" ELSE "ok")

\* an ignored failure that reports changed has been counted as ok
C1_Witness ==
    /\ Counted /\ Rule1 /\ last.changed
    /\ _fail_on_change = "false"
    /\ Growth("ok") = 1
    /\ Value(tasks_status, <<PlayOfLast, last.host, "failed">>) = 0

\* ------------------------------------------------------------------ C2
\* C2: when rule 1 does not apply, a failed result is counted as failed, an ok
\* result that reports changed while fail_on_change is true is counted as
\* failed, and every other result is counted under its raw status.
C2_DecisionTable ==
    (Counted /\ ~Rule1) =>
        CountedAs(CASE last.raw = "failed" -> "failed"
                    [] last.raw = "ok" /\ last.changed /\ _fail_on_change = "true" -> "failed"
                    [] OTHER -> last.raw)

\* a skipped result that reports changed, with fail_on_change on, stayed skipped
C2_Witness ==
    /\ Counted /\ last.raw = "skipped" /\ last.changed
    /\ _fail_on_change = "true"
    /\ Growth("skipped") = 1
    /\ Value(tasks_status, <<PlayOfLast, last.host, "failed">>) = 0

\* ------------------------------------------------------------------ C3
\* C3: every result that the setup exclusion does not drop adds 1 to the changed series of
\* its (play, host) when it reports changed and 0 otherwise, on top of exactly one
\* primary increment, whatever its raw status and its reclassification.
C3_ChangedAdditive ==
    (/\ last.outcome /= "none"
     /\ ~(_task_data[last.task].action \in ACTION_SETUP /\ _include_setup_tasks = "false")) =>
        /\ Counted
        /\ Growth("changed") = IF last.changed THEN 1 ELSE 0
        /\ \E s \in Primary : CountedAs(s)

\* a failed result that reports changed was counted as failed and as changed
C3_Witness ==
    /\ Counted /\ last.raw = "failed" /\ ~last.ignore /\ last.changed
    /\ Growth("failed") = 1
    /\ Growth("changed") = 1

\* ------------------------------------------------------------------ C4
\* the step is a task-result callback with these arguments
ResultEvent(task_uuid, host, result_changed, ignore_errors) ==
    \/ Failed(task_uuid, host, result_changed, ignore_errors)
    \/ Ok(task_uuid, host, result_changed)
    \/ Skipped(task_uuid, host, result_changed)

\* C4: a task result whose task id no start callback registered raises KeyError
\* (the UnknownTask error) and leaves the status counters, the duration gauges
\* and the task registry as they were.
C4_UnknownTask ==
    [][\A t \in TaskIds, h \in Hosts, c \in ResultChanged, i \in BOOLEAN :
          (t \notin DOMAIN _task_data /\ ResultEvent(t, h, c, i)) =>
              /\ err' = "KeyError"
              /\ UNCHANGED <<tasks_status, tasks_duration, playbook_duration, _task_data>>]_vars

\* a result for an unregistered task was refused while counters already held values
C4_Witness ==
    /\ err = "KeyError"
    /\ tasks_status /= EmptyMap
    /\ DOMAIN _task_data /= TaskIds

\* ------------------------------------------------------------------ C5
\* the result in last left the status counters and the duration gauges as they were
NothingCounted ==
    /\ tasks_status = last.before.tasks_status
    /\ tasks_duration = last.before.tasks_duration

\* C5: with include_setup_tasks disabled, a result of a setup task changes no
\* status counter, no changed counter and no duration gauge, whatever its status,
\* changed flag and ignore_errors; a result of any other task is still counted.
C5_SetupDropped ==
    (last.outcome /= "none" /\ _include_setup_tasks = "false") =>
        IF _task_data[last.task].action \in ACTION_SETUP
        THEN NothingCounted
        ELSE Counted /\ \E s \in Primary : CountedAs(s)

\* a setup result was dropped in a run that counted the result of another task
C5_Witness ==
    /\ _include_setup_tasks = "false"
    /\ last.outcome = "dropped"
    /\ _task_data[last.task].action \in ACTION_SETUP
    /\ NothingCounted
    /\ tasks_status /= EmptyMap

\* ------------------------------------------------------------------ C6
\* C6: whatever start callbacks and play starts have come, the registry holds
\* for every task id that was ever started exactly the TaskRun of its first start
\* callback: the time, the play and the action of that moment; none is removed.
C6_StartIdempotent ==
    /\ DOMAIN _task_data = DOMAIN started
    /\ \A t \in DOMAIN started :
          _task_data[t] = [play |-> started[t].play, action |-> started[t].action,
                           start_time |-> started[t].start_time]

\* a task was started again, later and under another play, and kept its TaskRun
C6_Witness ==
    \E t \in DOMAIN _task_data :
        /\ started[t].again
        /\ _task_data[t].start_time < now
        /\ _task_data[t].play /= _play_name
        /\ DOMAIN _task_data = {t}

\* ------------------------------------------------------------------ C7
\* C7: once the worker threads have finished the results they took up, every
\* series of ansible_tasks_status holds exactly the number of increments those
\* results were due, however the threads interleaved and whether the results
\* shared a series or not.
C7_NoLostUpdates ==
    (\A w \in Workers : workers[w].pc = "idle") =>
        \A k \in DOMAIN tasks_status \cup DOMAIN delivered :
            Value(tasks_status, k) = Value(delivered, k)

\* two results that overlapped in time were both counted in one series, and a
\* third series holds its own count
C7_Witness ==
    /\ overlapped
    /\ \A w \in Workers : workers[w].pc = "idle"
    /\ \E k, j \in DOMAIN tasks_status :
          tasks_status[k] = 2 /\ tasks_status[j] = 1 /\ j[2] /= k[2]

\* ------------------------------------------------------------------ C8
\* a step in which a callback was invoked
EventStep == nevents' /= nevents

\* the series of ansible_tasks_status that grew when the result in last was counted
Grown == {k \in DOMAIN tasks_status : tasks_status[k] /= Value(last.before.tasks_status, k)}

\* C8 as stated: a result for a task started before any play start is recorded
\* under the empty-string play label.
C8_Original ==
    (Counted /\ _task_data[last.task].play = None) => \A k \in Grown : k[1] = ""

\* C8, amended: a result for a task started before any play start raises no
\* error and is recorded under the play label "None", the text of the unset
\* name: a series of its own, distinct from that of every named play but a play
\* that is itself named "None".
C8_UnsetPlay ==
    [][/\ (EventStep /\ err' /= "") =>
             \A t \in DOMAIN _task_data, h \in Hosts, c \in ResultChanged, i \in BOOLEAN :
                 ~(_task_data[t].play = None /\ ResultEvent(t, h, c, i))
       /\ (last' /= last /\ last'.outcome = "counted" /\ _task_data[last'.task].play = None) =>
             /\ tasks_status' /= tasks_status
             /\ \A k \in DOMAIN tasks_status' :
                   tasks_status'[k] /= Value(tasks_status, k) => k[1] = "None"]_vars

\* a result of a task started before any play start was counted, in a run that has a named play
C8_Witness ==
    /\ Counted
    /\ _task_data[last.task].play = None
    /\ _play_name = Some("site")
    /\ err = ""
    /\ Grown /= {}
    /\ \A k \in Grown : k[1] = "None"

\* ------------------------------------------------------------------ C9
\* a playbook_stats callback has run to its end: the textfile was written
Finished == textfile /= None

\* C9 as stated: once a playbook_stats event has been processed, every further
\* callback raises an error and changes nothing.
C9_Terminal ==
    [][(Finished /\ EventStep) => (err' /= "" /\ UNCHANGED prog_vars)]_vars

\* ------------------------------------------------------------------ C10
\* C10: the textfile is written by the playbook_stats callback alone, and what is
\* written is the registry as it stands once that callback has added the playbook
\* duration, a non-negative number: every counter update made before it and the
\* duration are in the snapshot.
C10_SnapshotAtStats ==
    [][(textfile' /= textfile) =>
          /\ v2_playbook_on_stats
          /\ _start_time /= None
          /\ playbook_duration' = playbook_duration + IntSeconds(now - Val(_start_time))
          /\ playbook_duration' >= 0
          /\ textfile' = Some([info |-> info_playbook',
                               playbook_duration |-> playbook_duration',
                               tasks_duration |-> tasks_duration',
                               tasks_status |-> tasks_status'])
          /\ UNCHANGED <<tasks_status, tasks_duration>>]_vars

\* the run of the example: one ok result counted, then the snapshot written a second later
C10_Witness ==
    /\ textfile /= None
    /\ Val(textfile).tasks_status = (<<"None", "h1", "ok">> :> 1)
    /\ Val(textfile).playbook_duration = 1
    /\ Val(textfile).info = Some("site.yml")

\* ------------------------------------------------------------------ C11
\* C11 as stated: after every playbook_stats callback that gets as far as
\* recording the duration, ansible_playbook_duration_seconds equals the truncated
\* span between the playbook start and that callback, whatever it held before;
\* it is never the sum of several spans.
C11_Overwrite ==
    [][(v2_playbook_on_stats /\ ~disabled /\ _start_time /= None) =>
          playbook_duration' = IntSeconds(now - Val(_start_time))]_vars

\* ------------------------------------------------------------------ C12
\* C12 as stated: on a plugin that disabled itself because prometheus_client
\* is missing, every callback raises no error, changes no state and writes no
\* textfile.
C12_DisabledNoOp ==
    [][(disabled /\ EventStep) => (err' = "" /\ UNCHANGED prog_vars)]_vars

\* ------------------------------------------------------------------ C13
\* the result in last was treated as the three options, read as booleans, say:
\* dropped when it is a setup result and setup tasks are not included, else
\* counted under the status of the decision table
TreatedAs(fail_on_change, fail_on_ignore, include_setup_tasks) ==
    last.outcome /= "none" =>
        LET handed == IF last.raw = "failed" /\ last.ignore /\ ~fail_on_ignore
                      THEN "ok" ELSE last.raw
            final == IF fail_on_change /\ handed = "ok" /\ last.changed
                     THEN "failed" ELSE handed
        IN  IF _task_data[last.task].action \in ACTION_SETUP /\ ~include_setup_tasks
            THEN NothingCounted
            ELSE Counted /\ CountedAs(final)

\* C13 as stated: each of the three options is on only when its string is
\* 'true'; any other string, valid or not, acts as false, so an invalid
\* include_setup_tasks drops setup results.
C13_Original ==
    TreatedAs(_fail_on_change = "true", _fail_on_ignore = "true",
              _include_setup_tasks = "true")

\* C13, amended: a string that is not a valid boolean acts as the default of
\* its option: fail_on_change and fail_on_ignore are on only for 'true', and
\* include_setup_tasks is off only for 'false', so an invalid value keeps setup
\* results.
C13_PermissiveParsing ==
    TreatedAs(_fail_on_change = "true", _fail_on_ignore = "true",
              _include_setup_tasks /= "false")

\* with all three options invalid, an ignored failure of a setup task that
\* reports changed was counted as ok
C13_Witness ==
    /\ {_fail_on_change, _fail_on_ignore, _include_setup_tasks} \cap {"true", "false"} = {}
    /\ Counted
    /\ _task_data[last.task].action \in ACTION_SETUP
    /\ last.raw = "failed" /\ last.ignore /\ last.changed
    /\ Growth("ok") = 1
    /\ Growth("changed") = 1

\* ------------------------------------------------------------------ C14
\* C14: in every step, whatever callback takes it, every series of
\* ansible_tasks_status that exists is still there afterwards and holds at least
\* the value it held: no counter decreases, is reset or is removed.
C14_Monotonic ==
    [][\A k \in DOMAIN tasks_status :
          k \in DOMAIN tasks_status' /\ tasks_status'[k] >= tasks_status[k]]_vars

\* a series reached 2 within a second of its task's start, and a playbook
\* start that came later left it there
C14_Witness ==
    /\ err = ""
    /\ _start_time = Some(MaxTime)
    /\ \E t \in DOMAIN _task_data, h \in Hosts :
          /\ _task_data[t].start_time = 0
          /\ Value(tasks_status, <<Str(_task_data[t].play), h, "ok">>) = 2
          /\ Value(tasks_duration, <<Str(_task_data[t].play), h>>) = 0

\* ------------------------------------------------------------------ C15
\* whole seconds in a span of half-second ticks, the rest cut off
WholeSeconds(span, q) == q >= 0 /\ 2 * q <= span /\ span < 2 * q + 2

\* C15: a step in which a result is counted adds to the duration gauge of the
\* result's (play, host) the whole seconds elapsed since the first start callback
\* of its task, a non-negative amount, and leaves every other duration gauge as
\* it was; no other step changes a duration gauge. So each gauge is the sum of
\* these amounts and never decreases.
C15_DurationSum ==
    [][/\ (tasks_status' /= tasks_status) =>
             LET t == last'.task
                 key == <<Str(_task_data[t].play), last'.host>>
                 span == now - started[t].start_time
             IN  /\ last'.outcome = "counted"
                 /\ DOMAIN tasks_duration' = DOMAIN tasks_duration \cup {key}
                 /\ \A k \in DOMAIN tasks_duration' \ {key} :
                       tasks_duration'[k] = tasks_duration[k]
                 /\ WholeSeconds(span, tasks_duration'[key] - Value(tasks_duration, key))
       /\ (tasks_status' = tasks_status) => tasks_duration' = tasks_duration]_vars

\* two results of one task were counted for a host: the first within a second
\* of the task's start added nothing, the second added one second
C15_Witness ==
    /\ Counted
    /\ now = 2
    /\ _task_data[last.task].start_time = 0
    /\ Value(tasks_status, <<PlayOfLast, last.host, "ok">>) = 2
    /\ <<PlayOfLast, last.host>> \in DOMAIN last.before.tasks_duration
    /\ last.before.tasks_duration[<<PlayOfLast, last.host>>] = 0
    /\ tasks_duration[<<PlayOfLast, last.host>>] = 1

\* ------------------------------------------------------------------ C16
\* the series of ansible_tasks_duration_seconds that the result in last touched
Timed ==
    {k \in DOMAIN tasks_duration :
        k \notin DOMAIN last.before.tasks_duration
        \/ tasks_duration[k] /= Value(last.before.tasks_duration, k)}

\* C16: a step that changes the current play name changes nothing else of the
\* plugin: no TaskData, no status counter, no duration gauge; and a step that
\* counts a result does so under the play that was current at the first start
\* callback of its task, whatever play is current when the result arrives.
C16_PlayOfFirstStart ==
    [][/\ (_play_name' /= _play_name) =>
             UNCHANGED <<cfg_vars, _start_time, _task_data, metric_vars, textfile>>
       /\ (tasks_status' /= tasks_status) =>
             LET label == Str(started[last'.task].play)
             IN  /\ \A k \in DOMAIN tasks_status' :
                       tasks_status'[k] /= Value(tasks_status, k) => k[1] = label
                 /\ \A k \in DOMAIN tasks_duration' :
                       (k \notin DOMAIN tasks_duration \/ tasks_duration'[k] /= tasks_duration[k])
                           => k[1] = label]_vars

\* a task was started in play "site"; its result arrived when the current
\* play was another one, and was counted under "site"
C16_Witness ==
    /\ Counted
    /\ started[last.task].play = Some("site")
    /\ last.current = Some("None")
    /\ Grown /= {}
    /\ \A k \in Grown \cup Timed : k[1] = "site"

\* ------------------------------------------------------------------ C17
\* C17 as stated: once a playbook start has set the start timestamp, no step
\* of any callback changes it or unsets it.
C17_SetOnce ==
    [][_start_time /= None => _start_time' = _start_time]_vars

\* ------------------------------------------------------------------ C18
\* every series of ansible_tasks_status has one of the four status labels, a
\* play label that is the label text of the play of some registered task, and a
\* value of at least 1
Labelled ==
    \A k \in DOMAIN tasks_status :
        /\ k[3] \in Primary \cup {"changed"}
        /\ \E t \in DOMAIN _task_data : k[1] = Str(_task_data[t].play)
        /\ tasks_status[k] >= 1

\* C18: in every reachable state every series of ansible_tasks_status is
\* labelled as above, and a step that creates a series is the step of a task
\* result callback: no playbook start, play start, task start or playbook stats
\* creates one.
C18_LabelDiscipline ==
    /\ []Labelled
    /\ [][(DOMAIN tasks_status' /= DOMAIN tasks_status) =>
             \E t \in TaskIds, h \in Hosts, c \in ResultChanged, i \in BOOLEAN :
                 ResultEvent(t, h, c, i)]_vars

\* all four statuses have a series for one play and host
C18_Witness ==
    \E t \in DOMAIN _task_data, h \in Hosts :
        \A s \in Primary \cup {"changed"} :
            <<Str(_task_data[t].play), h, s>> \in DOMAIN tasks_status

\* ------------------------------------------------------------------ C19
\* the (play, host) pairs that a counter or a returned result has named
Pairs == {<<k[1], k[2]>> : k \in DOMAIN tasks_status} \cup DOMAIN results

\* ok + failed + skipped of a pair
PrimarySum(pair) ==
    Value(tasks_status, <<pair[1], pair[2], "ok">>)
        + Value(tasks_status, <<pair[1], pair[2], "failed">>)
        + Value(tasks_status, <<pair[1], pair[2], "skipped">>)

\* C19: in every reachable state, for every (play, host), ok + failed + skipped
\* is the number of results for that pair that returned without error and were
\* not setup results left out, and changed is at most that number.
C19_Accounting ==
    \A pair \in Pairs :
        /\ PrimarySum(pair) = Value(results, pair)
        /\ Value(tasks_status, <<pair[1], pair[2], "changed">>) <= PrimarySum(pair)

\* three results were counted for one pair, under different statuses, two of
\* them reporting changed
C19_Witness ==
    \E pair \in Pairs :
        /\ Value(results, pair) = 3
        /\ Value(tasks_status, <<pair[1], pair[2], "changed">>) = 2
        /\ Value(tasks_status, <<pair[1], pair[2], "failed">>) = 1
        /\ Value(tasks_status, <<pair[1], pair[2], "skipped">>) = 1

\* ------------------------------------------------------------------ C20
\* C20: a playbook stats callback that comes while no playbook start has set
\* the start time raises TypeError while it computes the duration: the playbook
\* duration gauge keeps its value and no textfile is written.
C20_StatsWhileIdle ==
    [][(v2_playbook_on_stats /\ ~disabled /\ _start_time = None) =>
          /\ err' = "TypeError"
          /\ UNCHANGED <<playbook_duration, textfile>>]_vars

\* playbook stats was refused for want of a start time while counters held
\* values, and there is no textfile
C20_Witness ==
    /\ err = "TypeError"
    /\ _start_time = None
    /\ tasks_status /= EmptyMap
    /\ playbook_duration = 0
    /\ textfile = None

====
